---- MODULE Spec2Model ----
(***************************************************************************)
(* Model of the WEkEO Harmonised Data Access client                        *)
(* (wekeo-hda/hda_api_functions.ipynb) driven by the download cell of      *)
(* ocean/Sentinel3/33_SRAL_Waveforms.ipynb.                                *)
(*                                                                         *)
(* The client is a sequential program.  The broker is the environment:     *)
(* every response it gives (HTTP status code and body) is chosen           *)
(* nondeterministically.  A non-200 response carries an error document     *)
(* that has none of the keys the client reads from a 200 body.             *)
(*                                                                         *)
(* A Python exception is modelled by Raise: it is recorded in `raised`,    *)
(* and the call it happened in ends without executing its remaining        *)
(* statements.  Two callers are modelled: "cell" runs the whole pipeline   *)
(* in one notebook cell (an exception ends the cell), "steps" runs each    *)
(* call of the pipeline in a cell of its own (an exception ends that call  *)
(* only; the session dictionary is shared and keeps what was stored).      *)
(***************************************************************************)
EXTENDS Integers, Sequences, FiniteSets, TLC

VARIABLES
    caller,      \* "cell" or "steps": how the pipeline calls are issued
    pc,          \* position of the program
    hda_dict,    \* the session dictionary (key -> value), mutated in place
    raised,      \* exceptions that ended a call: [fn, err, non200]
    sent,        \* the distinct requests sent so far
    broker,      \* broker side: terms flag, PUTs received, token request
                 \* denied, orders issued (order id -> uri and job), uris
                 \* whose order request was answered non-200, the answer
                 \* to the last terms GET, a PUT answered non-200, job and
                 \* orders the client has seen "completed"
    dir,         \* the download directory: exists flag and its files
    poll,        \* locals of the running polling loop
    ord,         \* locals of get_order_ids
    dl,          \* locals of download_data and its download history
    calls,       \* how often the caller has called a step so far
    df           \* a direct call of downloadFile: arguments, locals, file

vars == <<caller, pc, hda_dict, raised, sent, broker, dir, poll, ord, dl,
          calls, df>>

----------------------------------------------------------------------------
(* Bounds *)

MaxResults == 3      \* results on the page returned by the broker
MaxPolls == 22       \* status requests of one polling loop
MaxCalls == 2        \* calls of one function by the step-by-step caller
MaxChunks == 3       \* chunks of the body of a direct downloadFile call
MaxName == 2         \* characters of a username and of a password

----------------------------------------------------------------------------
(* Values *)

CONST_HTTP_SUCCESS_CODE == 200
ErrorCode == 500             \* stands for every non-200 status code
PageSize == 5
ImmediatePolls == 20
SleepSeconds == 5
ChunkSize == 64738

Unbound == "<unbound>"       \* a local variable that was never assigned
None == "<None>"
NoName == <<>>               \* a file name or extension that is None or ""
NoLength == -1               \* total_length = None

Min(a, b) == IF a < b THEN a ELSE b
Max(a, b) == IF a > b THEN a ELSE b

EmptyDict == [k \in {} |-> None]

\* d[k] = v of a Python dict
Put(d, k, v) == [x \in (DOMAIN d) \cup {k} |-> IF x = k THEN v ELSE d[x]]

Has(d, k) == k \in DOMAIN d

\* the file names the broker's catalogue gives to its products
ProductNames == <<"a.nc", "b.nc", "c.nc", "d.nc", "e.nc">>

\* the real length in bytes of product j
ProductBytes(j) == 1000 * j

\* result descriptor j of a page; z is the result whose size is reported as 0
Descriptor(j, z) ==
    [url |-> j, filename |-> <<ProductNames[j]>>,
     size |-> IF j = z THEN 0 ELSE ProductBytes(j)]

\* the pages the broker may answer: K results, at most one of unknown size
ResultPages ==
    { [content |-> [j \in 1..K |-> Descriptor(j, z)]] :
        K \in 0..Min(MaxResults, PageSize), z \in 0..1 }

ErrorDocument == [message |-> "error"]

----------------------------------------------------------------------------
(* Requests *)

Basic(key) == <<"Basic", key>>

\* mutant: the stored headers keep the scheme of the token request
Bearer_as_Basic(token) == <<"Basic", token>>

\* line 202: 'Bearer ' + hda_dict["access_token"]
Bearer(token) == <<"Bearer", token>>

\* job: the job id in the URL or body ("n/a" when the request has none);
\* order: the order id in the URL, or the uri of an order request (0: none)
NA == "n/a"

Request(method, endpoint, job, order, params, headers) ==
    [method |-> method, endpoint |-> endpoint, job |-> job, order |-> order,
     params |-> params, auth |-> headers.Authorization]

Ok(body) == [status_code |-> CONST_HTTP_SUCCESS_CODE, body |-> body]
Failure == [status_code |-> ErrorCode, body |-> ErrorDocument]

Tokens == {"token1"}
JobIds == {"job1"}
Statuses == {"running", "failed", "completed"}

TokenResponses == {Ok([access_token |-> t]) : t \in Tokens} \cup {Failure}
JobResponses == {Ok([jobId |-> j]) : j \in JobIds} \cup {Failure}
StatusResponses == {Ok([status |-> s]) : s \in Statuses} \cup {Failure}
ResultResponses == {Ok(p) : p \in ResultPages} \cup {Failure}

\* the broker gives a new order the next free order id
OrderResponses(orders) == {Ok([orderId |-> Len(orders) + 1]), Failure}

\* locals of a polling loop (status, count, response.status_code as code),
\* with what the loop did so far: requests sent, seconds slept, and the
\* request that was first answered "completed" (0: none yet)
NoPoll == [status |-> Unbound, count |-> 0, order_id |-> 0, code |-> 0,
           polls |-> 0, slept |-> 0, completed_at |-> 0, printed |-> "none"]

\* the local `response` of get_order_ids before its first assignment
UnboundResponse == [status_code |-> 0]

\* locals of get_order_ids, and whether an order request got a non-200
NoOrd == [i |-> 0, order_ids |-> <<>>, order_sizes |-> <<>>,
          response |-> UnboundResponse, non200 |-> FALSE]

\* locals of download_data, and the downloadFile calls made so far
NoDl == [i |-> 0, fileNames |-> <<>>, file_extension |-> NoName,
         user_filename |-> NoName, log |-> <<>>]

NoCalls == [acceptTandC |-> 0, get_access_token |-> 0]

\* no direct call of downloadFile is made
NoDf == [at |-> "idle"]

----------------------------------------------------------------------------
(* Exceptions and the caller *)

Steps == <<"init", "get_access_token", "acceptTandC", "get_job_id",
           "get_results_list", "get_order_ids", "download_data", "done">>

StepAfter(fn) ==
    LET k == CHOOSE n \in 1..Len(Steps) : Steps[n] = fn
    IN  Steps[k + 1]

\* where the caller goes on after an exception in step fn
RaiseTo(how, fn) == IF how = "cell" THEN "aborted" ELSE StepAfter(fn)

\* the call of pipeline step `step` ends with exception err, raised in
\* function fn; non200: fn had received a non-200 response in this call
Raise(step, fn, err, non200) ==
    /\ raised' = raised \cup {[fn |-> fn, err |-> err, non200 |-> non200]}
    /\ pc' = RaiseTo(caller, step)

Return(fn) == pc' = StepAfter(fn)

----------------------------------------------------------------------------
Init ==
    /\ caller \in {"cell", "steps"}
    /\ pc = "init"
    /\ hda_dict = EmptyDict
    /\ raised = {}
    /\ sent = {}
    /\ broker \in [accepted : BOOLEAN, puts : {0}, token_denied : {FALSE},
                   orders : {<<>>}, rejected : {{}},
                   get_answer : {"none"}, put_failed : {FALSE},
                   job_completed : {FALSE}, completed : {{}}]
    /\ dir \in [exists : BOOLEAN, files : {EmptyDict}, made : {0}]
    /\ poll = NoPoll
    /\ ord = NoOrd
    /\ dl = NoDl
    /\ calls = NoCalls
    /\ df = NoDf

\* lines 129-148: the dictionary built by init
init_dict(dataset_id, api_key, download_dir_path) ==
    [broker_endpoint |-> "databroker",
     acceptTandC_address |-> "termsaccepted",
     accessToken_address |-> "gettoken",
     dataset_id |-> dataset_id,
     api_key |-> api_key,
     CONST_HTTP_SUCCESS_CODE |-> CONST_HTTP_SUCCESS_CODE,
     download_dir_path |-> download_dir_path]

\* mutant: the directory is made without the test
init_makes_dir_always(exists) == TRUE

\* line 149: if not os.path.exists(download_dir_path)
init_makes_dir(exists) == ~exists

\* init(dataset_id, api_key, download_dir_path)
init ==
    /\ pc = "init"
    /\ hda_dict' = init_dict("dataset", "key", "products")
    /\ dir' = IF init_makes_dir(dir.exists)
              THEN [dir EXCEPT !.exists = TRUE, !.made = @ + 1]
              ELSE dir
    /\ Return("init")
    /\ UNCHANGED <<caller, calls, df, raised, sent, broker, poll, ord, dl>>

\* mutant: the else branch binds an empty token, as get_job_id does for job_id
access_token_local_empty(response) ==
    IF response.status_code = CONST_HTTP_SUCCESS_CODE
    THEN response.body.access_token
    ELSE ""

\* lines 193-199: the local access_token after the if/else
access_token_local(response) ==
    IF response.status_code = CONST_HTTP_SUCCESS_CODE
    THEN response.body.access_token
    ELSE Unbound

\* get_access_token(hda_dict)
get_access_token ==
    /\ pc = "get_access_token"
    /\ calls' = [calls EXCEPT !.get_access_token = @ + 1]
    /\ \E response \in TokenResponses :
         LET headers == [Authorization |-> Basic(hda_dict["api_key"])]
             access_token == access_token_local(response)
         IN  /\ sent' = sent \cup
                   {Request("GET", "gettoken", NA, 0, <<>>, headers)}
             /\ broker' = [broker EXCEPT !.token_denied =
                              response.status_code # CONST_HTTP_SUCCESS_CODE]
             /\ IF access_token = Unbound
                THEN /\ Raise("get_access_token", "get_access_token", "UnboundLocalError",
                              response.status_code # CONST_HTTP_SUCCESS_CODE)
                     /\ UNCHANGED hda_dict
                ELSE /\ hda_dict' =
                          Put(Put(hda_dict, "access_token", access_token),
                              "headers",
                              [Authorization |-> Bearer(access_token),
                               Accept |-> "application/json"])
                     /\ Return("get_access_token")
                     /\ UNCHANGED raised
    /\ UNCHANGED <<caller, df, dir, poll, ord, dl>>

\* mutant: the acceptance is sent whatever the GET reported
needs_put_always(isTandCAccepted) == TRUE

\* mutant: the test of the flag is inverted
needs_put_inverted(isTandCAccepted) == isTandCAccepted = TRUE

\* line 288: isTandCAccepted is False
needs_put(isTandCAccepted) == isTandCAccepted = FALSE

\* what the broker answered to the terms GET
GetAnswer(get) ==
    IF ~Has(get.body, "accepted") THEN "error"
    ELSE IF get.body.accepted THEN "accepted" ELSE "not accepted"

\* acceptTandC(hda_dict)
acceptTandC ==
    /\ pc = "acceptTandC"
    /\ calls' = [calls EXCEPT !.acceptTandC = @ + 1]
    /\ IF ~Has(hda_dict, "headers")
       THEN /\ Raise("acceptTandC", "acceptTandC", "KeyError", FALSE)
            /\ UNCHANGED <<hda_dict, sent, broker>>
       ELSE \E get \in {Ok([accepted |-> broker.accepted]), Failure},
               put \in {Ok([accepted |-> TRUE]), Failure} :
            LET getReq == Request("GET", "termsaccepted", NA, 0, <<>>,
                                  hda_dict["headers"])
                putReq == Request("PUT", "termsaccepted", NA, 0, <<>>,
                                  hda_dict["headers"])
                answered == [broker EXCEPT !.get_answer = GetAnswer(get)]
            IN  IF ~Has(get.body, "accepted")
                THEN \* line 286 fails on the error document
                     /\ put = Failure   \* no PUT is sent: fix the unused choice
                     /\ sent' = sent \cup {getReq}
                     /\ broker' = answered
                     /\ Raise("acceptTandC", "acceptTandC", "KeyError", TRUE)
                     /\ UNCHANGED hda_dict
                ELSE IF needs_put(get.body.accepted)
                THEN /\ sent' = sent \cup {getReq, putReq}
                     /\ broker' =
                          [answered EXCEPT
                             !.puts = @ + 1,
                             !.put_failed =
                                 @ \/ put.status_code # CONST_HTTP_SUCCESS_CODE,
                             !.accepted =
                                 @ \/ put.status_code = CONST_HTTP_SUCCESS_CODE]
                     /\ IF ~Has(put.body, "accepted")
                        THEN /\ Raise("acceptTandC", "acceptTandC", "KeyError", TRUE)
                             /\ UNCHANGED hda_dict
                        ELSE /\ hda_dict' = Put(hda_dict, "isTandCAccepted",
                                                put.body.accepted)
                             /\ Return("acceptTandC")
                             /\ UNCHANGED raised
                ELSE /\ put = Failure   \* no PUT is sent: fix the unused choice
                     /\ sent' = sent \cup {getReq}
                     /\ broker' = answered
                     /\ hda_dict' = Put(hda_dict, "isTandCAccepted",
                                        get.body.accepted)
                     /\ Return("acceptTandC")
                     /\ UNCHANGED raised
    /\ UNCHANGED <<caller, df, dir, poll, ord, dl>>

\* the step-by-step caller runs the acceptTandC cell once more
acceptTandC_again ==
    /\ caller = "steps"
    /\ pc = StepAfter("acceptTandC")
    /\ calls.acceptTandC < MaxCalls
    /\ pc' = "acceptTandC"
    /\ UNCHANGED <<caller, calls, df, hda_dict, raised, sent, broker, dir,
                   poll, ord, dl>>

\* mutant: the counter is shared and goes on from the loops run before,
\* which sent the given number of requests
count_initial_carried(spent) == spent

\* lines 364 and 505: count = 0, whatever earlier loops have spent
count_initial(spent) == 0

\* lines 329-334: the local job_id after the if/else
job_id_local(response) ==
    IF response.status_code = CONST_HTTP_SUCCESS_CODE
    THEN response.body.jobId
    ELSE ""

\* mutant: an empty job id is not polled
after_job_id_if_submitted(job_id) ==
    IF job_id = "" THEN "get_results_list" ELSE "get_request_status"

\* line 337: what get_job_id does after storing the job id
after_job_id(job_id) == "get_request_status"

\* get_job_id(hda_dict, data), up to the call of get_request_status
get_job_id ==
    /\ pc = "get_job_id"
    /\ IF ~Has(hda_dict, "headers")
       THEN /\ Raise("get_job_id", "get_job_id", "KeyError", FALSE)
            /\ UNCHANGED <<hda_dict, sent, poll>>
       ELSE \E response \in JobResponses :
            LET job_id == job_id_local(response)
            IN  /\ sent' = sent \cup
                      {Request("POST", "datarequest", NA, 0, <<>>,
                               hda_dict["headers"])}
                /\ hda_dict' = Put(hda_dict, "job_id", job_id)
                /\ pc' = after_job_id(job_id)
                /\ poll' = [NoPoll EXCEPT !.status = "not started",
                                          !.count = count_initial(0)]
                /\ UNCHANGED raised
    /\ UNCHANGED <<caller, calls, df, broker, dir, ord, dl>>

\* mutant: the loop tests the status only from its second iteration on
loop_continues_twice(status, count) ==
    status # "completed" \/ count < 2

\* mutant: "failed" ends the loop as well
loop_continues_unless_failed(status, count) ==
    status \notin {"completed", "failed"}

\* lines 365 and 506: the condition of a polling loop
loop_continues(status, count) == status # "completed"

\* mutant: the sleep starts one request early
request_status_sleeps_early(count) == count >= ImmediatePolls

\* line 367: get_request_status sleeps before this request
request_status_sleeps(count) == count > ImmediatePolls

\* line 508: get_order_status sleeps before this request
order_status_sleeps(count) == count > ImmediatePolls

\* mutant: an error response ends the wait
status_after_error_completes(status, response) ==
    IF response.status_code = CONST_HTTP_SUCCESS_CODE
    THEN response.body.status
    ELSE "completed"

\* lines 375-377 and 517-519: the line printed after a response
printed_after(response) ==
    IF response.status_code = CONST_HTTP_SUCCESS_CODE
    THEN "Query successfully submitted"
    ELSE "Error: Unexpected response"

\* lines 373-377 and 515-519: the local status after a response
status_after(status, response) ==
    IF response.status_code = CONST_HTTP_SUCCESS_CODE
    THEN response.body.status
    ELSE status

\* one iteration of a polling loop: count, sleep, request, response
PollOnce(sleeps, response) ==
    LET count == poll.count + 1
        status == status_after(poll.status, response)
    IN  [status |-> status,
         count |-> count,
         order_id |-> poll.order_id,
         polls |-> poll.polls + 1,
         slept |-> poll.slept + (IF sleeps THEN SleepSeconds ELSE 0),
         completed_at |->
             IF /\ poll.completed_at = 0
                /\ response.status_code = CONST_HTTP_SUCCESS_CODE
                /\ response.body.status = "completed"
             THEN poll.polls + 1
             ELSE poll.completed_at,
         printed |-> printed_after(response),
         code |-> response.status_code]

\* get_request_status(hda_dict): one iteration of the while loop
get_request_status_poll ==
    /\ pc = "get_request_status"
    /\ loop_continues(poll.status, poll.count)
    /\ poll.count < MaxPolls
    /\ \E response \in StatusResponses :
         poll' = PollOnce(request_status_sleeps(poll.count + 1), response)
    /\ sent' = sent \cup
          {Request("GET", "datarequest/status", hda_dict["job_id"], 0, <<>>,
                   hda_dict["headers"])}
    /\ UNCHANGED <<caller, calls, df, pc, hda_dict, raised, broker, dir, ord, dl>>

\* get_request_status leaves its loop and get_job_id returns
get_request_status_return ==
    /\ pc = "get_request_status"
    /\ ~loop_continues(poll.status, poll.count)
    /\ poll' = NoPoll
    /\ broker' = [broker EXCEPT
                    !.job_completed = @ \/ poll.completed_at > 0]
    /\ Return("get_job_id")
    /\ UNCHANGED <<caller, calls, df, hda_dict, raised, sent, dir, ord, dl>>

\* mutant: the second page is requested
results_params_page_1 == <<"1", "5">>

\* line 410: params = {'page':'0', 'size':'5'}
results_params == <<"0", "5">>

\* mutant: the job id is cleared once its results are fetched
results_stored_job_cleared(d, results) ==
    Put(Put(d, "results", results), "job_id", "")

\* line 415: hda_dict['results']=results
results_stored(d, results) == Put(d, "results", results)

\* get_results_list(hda_dict)
get_results_list ==
    /\ pc = "get_results_list"
    /\ IF ~Has(hda_dict, "job_id") \/ ~Has(hda_dict, "headers")
       THEN /\ Raise("get_results_list", "get_results_list", "KeyError", FALSE)
            /\ UNCHANGED <<hda_dict, sent>>
       ELSE \E response \in ResultResponses :
            /\ sent' = sent \cup
                  {Request("GET", "datarequest/jobs/result",
                           hda_dict["job_id"], 0, results_params,
                           hda_dict["headers"])}
            /\ hda_dict' = results_stored(hda_dict, response.body)
            /\ Return("get_results_list")
            /\ UNCHANGED raised
    /\ UNCHANGED <<caller, calls, df, broker, dir, poll, ord, dl>>

\* get_order_ids(hda_dict): lines 446-450, up to the first iteration
get_order_ids ==
    /\ pc = "get_order_ids"
    /\ IF ~Has(hda_dict, "results") \/ ~Has(hda_dict["results"], "content")
       THEN /\ Raise("get_order_ids", "get_order_ids", "KeyError", FALSE)
            /\ UNCHANGED ord
       ELSE /\ ord' = NoOrd
            /\ pc' = "order_loop"
            /\ UNCHANGED raised
    /\ UNCHANGED <<caller, calls, df, hda_dict, sent, broker, dir, poll, dl>>

\* mutant: the new order id is put in front of the list
order_ids_prepend(order_ids, orderId) == <<orderId>> \o order_ids

\* lines 464-467: order_ids after a 200 response to the order request
order_ids_append(order_ids, orderId) == Append(order_ids, orderId)

\* mutant: the new order id is read from the end of the list
order_id_index_last(i, order_ids) == Len(order_ids) - 1

\* lines 466-467: the (0-based) index used to read the new order id
order_id_index(i, order_ids) == i

\* mutant: the size is not recorded
order_sizes_keep(order_sizes, result) == order_sizes

\* line 457: order_sizes after the result was taken from the list
order_sizes_append(order_sizes, result) == Append(order_sizes, result.size)

\* lines 450-471: one iteration of the for loop of get_order_ids, up to the
\* call of get_order_status (200) or to the end of the iteration (non-200).
\* i counts the iterations, so the result of this iteration is content[i].
order_request ==
    /\ pc = "order_loop"
    /\ ord.i < Len(hda_dict["results"].content)
    /\ \E response \in OrderResponses(broker.orders) :
         LET result == hda_dict["results"].content[ord.i + 1]
             order_sizes == order_sizes_append(ord.order_sizes, result)
             ok == response.status_code = CONST_HTTP_SUCCESS_CODE
             order_ids == order_ids_append(ord.order_ids,
                                           response.body.orderId)
             idx == order_id_index(ord.i, order_ids)
         IN  /\ sent' = sent \cup
                   {Request("POST", "dataorder", hda_dict["job_id"],
                            result.url, <<>>, hda_dict["headers"])}
             /\ IF ~ok
                THEN /\ ord' = [ord EXCEPT !.order_sizes = order_sizes,
                                           !.response = [status_code |-> response.status_code],
                                           !.non200 = TRUE,
                                           !.i = @ + 1]
                     /\ broker' = [broker EXCEPT
                                     !.rejected = @ \cup {result.url}]
                     /\ UNCHANGED <<pc, raised, poll>>
                ELSE /\ broker' =
                          [broker EXCEPT
                             !.orders = Append(@, [uri |-> result.url,
                                                   job |-> hda_dict["job_id"]])]
                     /\ IF idx + 1 \notin DOMAIN order_ids
                        THEN \* order_ids[i] is out of range at line 466
                             /\ Raise("get_order_ids", "get_order_ids",
                                      "IndexError", ord.non200)
                             /\ ord' = NoOrd
                             /\ UNCHANGED poll
                        ELSE /\ ord' = [ord EXCEPT
                                          !.order_sizes = order_sizes,
                                          !.order_ids = order_ids,
                                          !.response = [status_code |-> response.status_code]]
                             /\ poll' = [NoPoll EXCEPT
                                           !.status = "not started",
                                           !.count = count_initial(
                                               1 + Len(ord.order_ids)),
                                           !.order_id = order_ids[idx + 1]]
                             /\ pc' = "get_order_status"
                             /\ UNCHANGED raised
    /\ UNCHANGED <<caller, calls, df, hda_dict, dir, dl>>

\* get_order_status(hda_dict, order_id): one iteration of the while loop
get_order_status_poll ==
    /\ pc = "get_order_status"
    /\ loop_continues(poll.status, poll.count)
    /\ poll.count < MaxPolls
    /\ \E response \in StatusResponses :
         poll' = PollOnce(order_status_sleeps(poll.count + 1), response)
    /\ sent' = sent \cup
          {Request("GET", "dataorder/status", NA, poll.order_id, <<>>,
                   hda_dict["headers"])}
    /\ UNCHANGED <<caller, calls, df, pc, hda_dict, raised, broker, dir, ord, dl>>

\* get_order_status returns its last response; lines 467-471 of get_order_ids
get_order_status_return ==
    /\ pc = "get_order_status"
    /\ ~loop_continues(poll.status, poll.count)
    /\ ord' = [ord EXCEPT !.response = [status_code |-> poll.code], !.i = @ + 1]
    /\ poll' = NoPoll
    /\ broker' = [broker EXCEPT
                    !.completed = IF poll.completed_at > 0
                                  THEN @ \cup {poll.order_id} ELSE @]
    /\ pc' = "order_loop"
    /\ UNCHANGED <<caller, calls, df, hda_dict, raised, sent, dir, dl>>

\* mutant: response is bound before the loop
response_is_bound_always(response) == TRUE

\* line 474: the local response was assigned by an iteration of the loop
response_is_bound(response) == response # UnboundResponse

\* lines 472-475: after the for loop of get_order_ids
get_order_ids_return ==
    /\ pc = "order_loop"
    /\ ord.i >= Len(hda_dict["results"].content)
    /\ LET d == Put(Put(hda_dict, "order_ids", ord.order_ids),
                    "order_sizes", ord.order_sizes)
       IN  IF response_is_bound(ord.response)
           THEN /\ hda_dict' = Put(d, "order_status_response", ord.response)
                /\ Return("get_order_ids")
                /\ UNCHANGED raised
           ELSE \* line 474 reads a local that no iteration assigned
                /\ hda_dict' = d
                /\ Raise("get_order_ids", "get_order_ids",
                         "UnboundLocalError", ord.non200)
    /\ ord' = NoOrd
    /\ UNCHANGED <<caller, calls, df, sent, broker, dir, poll, dl>>

\* lines 638-655: get_filenames(hda_dict)
get_filenames(d) ==
    [j \in DOMAIN d["results"].content |-> d["results"].content[j].filename]

\* r.iter_content(64738): the lengths of the chunks of a body of n bytes
RECURSIVE iter_content(_)
iter_content(n) ==
    IF n = 0 THEN <<>>
    ELSE IF n <= ChunkSize THEN <<n>>
    ELSE <<ChunkSize>> \o iter_content(n - ChunkSize)

RECURSIVE SumSeq(_)
SumSeq(q) == IF q = <<>> THEN 0 ELSE Head(q) + SumSeq(Tail(q))

\* the body streamed for an order: the product the order was issued for
DownloadResponses(orders, order_id) ==
    {Ok([length |-> ProductBytes(orders[order_id].uri)]), Failure}

\* mutant: the file is opened before the status code is tested
downloadFile_opens_first(response, total_length) ==
    IF response.status_code # 200
    THEN [created |-> TRUE, written |-> 0, ends |-> "return",
          value |-> None]
    ELSE [created |-> TRUE,
          written |-> SumSeq(iter_content(response.body.length)),
          ends |-> IF total_length = 0 /\ response.body.length > 0
                   THEN "ZeroDivisionError" ELSE "return",
          value |-> IF total_length = 0 /\ response.body.length > 0
                    THEN None ELSE "elapsed"]

\* lines 550-585: downloadFile(url, headers, directory, file_name,
\* total_length) for a given response: is the file created, how many bytes
\* are written to it, and how the call ends (the exception raised, or
\* "return" with the value returned)
downloadFile(response, total_length) ==
    IF response.status_code # 200
    THEN [created |-> FALSE, written |-> 0, ends |-> "return",
          value |-> None]
    ELSE LET chunks == iter_content(response.body.length)
         IN  IF total_length = NoLength
             THEN \* line 557 divides None
                  [created |-> TRUE, written |-> 0, ends |-> "TypeError",
                   value |-> None]
             ELSE IF chunks # <<>> /\ total_length = 0
             THEN \* line 563 divides by zero after the first chunk
                  [created |-> TRUE, written |-> chunks[1],
                   ends |-> "ZeroDivisionError", value |-> None]
             ELSE [created |-> TRUE, written |-> SumSeq(chunks),
                   ends |-> "return", value |-> "elapsed"]

\* the arguments the caller gives download_data: the cell calls
\* download_data(HAPI_dict, file_extension='.zip')
DownloadArgs(how) ==
    IF how = "cell"
    THEN {[file_extension |-> <<".zip">>, user_filename |-> NoName]}
    ELSE [file_extension : {NoName, <<".zip">>},
          user_filename : {NoName, <<"user.nc">>}]

\* download_data(hda_dict, file_extension, user_filename): lines 687-690
download_data ==
    /\ pc = "download_data"
    /\ IF \/ ~Has(hda_dict, "results")
          \/ ~Has(hda_dict["results"], "content")
          \/ ~Has(hda_dict, "order_ids")
       THEN /\ Raise("download_data", "download_data", "KeyError", FALSE)
            /\ UNCHANGED dl
       ELSE /\ \E args \in DownloadArgs(caller) :
                 dl' = [dl EXCEPT !.i = 0, !.fileNames = <<>>,
                           !.file_extension = args.file_extension,
                           !.user_filename = args.user_filename]
            /\ pc' = "download_loop"
            /\ UNCHANGED raised
    /\ UNCHANGED <<caller, calls, df, hda_dict, sent, broker, dir, poll, ord>>

\* mutant: the extension is not appended
file_name_of_no_extension(fileName, i, file_extension, user_filename) ==
    IF user_filename # NoName THEN user_filename ELSE fileName[i + 1]

\* mutant: the user's name is ignored
file_name_of_result(fileName, i, file_extension, user_filename) ==
    IF file_extension # NoName THEN fileName[i + 1] \o file_extension
    ELSE fileName[i + 1]

\* lines 691-697: the name of the file of iteration i
file_name_of(fileName, i, file_extension, user_filename) ==
    LET file_name == IF user_filename # NoName THEN user_filename
                     ELSE fileName[i + 1]
    IN  IF file_extension # NoName THEN file_name \o file_extension
        ELSE file_name

\* line 702: the size passed to downloadFile in iteration i
product_size_of(order_sizes, i) == order_sizes[i + 1]

\* mutant: the path is recorded only when downloadFile returned a time
fileNames_append_if_downloaded(fileNames, path, time_elapsed) ==
    IF time_elapsed = None THEN fileNames ELSE Append(fileNames, path)

\* line 708: fileNames after downloadFile returned time_elapsed
fileNames_append(fileNames, path, time_elapsed) == Append(fileNames, path)

\* lines 690-722: one iteration of the for loop of download_data
download_order ==
    /\ pc = "download_loop"
    /\ dl.i < Len(hda_dict["order_ids"])
    /\ LET order_id == hda_dict["order_ids"][dl.i + 1]
           file_name == file_name_of(get_filenames(hda_dict), dl.i,
                                     dl.file_extension, dl.user_filename)
           product_size == product_size_of(hda_dict["order_sizes"], dl.i)
       IN  \E response \in DownloadResponses(broker.orders, order_id) :
           LET r == downloadFile(response, product_size)
               entry == [order_id |-> order_id, file_name |-> file_name,
                         total_length |-> product_size,
                         status_code |-> response.status_code,
                         written |-> r.written, value |-> r.value]
           IN  /\ sent' = sent \cup
                     {Request("GET", "dataorder/download", NA, order_id,
                              <<>>, hda_dict["headers"])}
               /\ dir' = IF r.created
                         THEN [dir EXCEPT
                                 !.files = Put(@, file_name, r.written)]
                         ELSE dir
               /\ IF r.ends # "return"
                  THEN /\ Raise("download_data", "downloadFile", r.ends,
                                response.status_code # 200)
                       /\ dl' = [NoDl EXCEPT !.log = Append(dl.log, entry)]
                  ELSE /\ dl' = [dl EXCEPT
                                   !.i = @ + 1,
                                   !.log = Append(@, entry),
                                   !.fileNames =
                                       fileNames_append(@,
                                           <<hda_dict["download_dir_path"]>>
                                               \o file_name, r.value)]
                       /\ UNCHANGED <<pc, raised>>
    /\ UNCHANGED <<caller, calls, df, hda_dict, broker, poll, ord>>

\* lines 724-725: after the for loop of download_data
download_data_return ==
    /\ pc = "download_loop"
    /\ dl.i >= Len(hda_dict["order_ids"])
    /\ hda_dict' = Put(hda_dict, "filenames", dl.fileNames)
    /\ dl' = [NoDl EXCEPT !.log = dl.log]
    /\ Return("download_data")
    /\ UNCHANGED <<caller, calls, df, raised, sent, broker, dir, poll, ord>>

Next ==
    \/ init
    \/ get_access_token
    \/ acceptTandC
    \/ acceptTandC_again
    \/ get_job_id
    \/ get_request_status_poll
    \/ get_request_status_return
    \/ get_results_list
    \/ get_order_ids
    \/ order_request
    \/ get_order_status_poll
    \/ get_order_status_return
    \/ get_order_ids_return
    \/ download_data
    \/ download_order
    \/ download_data_return

Spec == Init /\ [][Next]_vars

----------------------------------------------------------------------------
(* downloadFile called directly, chunk by chunk *)

\* body lengths around the chunk size, and the values of total_length
BodyLengths ==
    {0, 1000} \cup {k * ChunkSize : k \in 1..MaxChunks}
              \cup {k * ChunkSize + 1 : k \in 1..MaxChunks - 1}

TotalLengths == {NoLength, 0} \cup (BodyLengths \ {0})

DirectFile == <<"file.nc">>

\* the arguments and the response of one call, before its first statement
DfCall(status_code, length, total_length) ==
    [at |-> "call", status_code |-> status_code, length |-> length,
     body |-> iter_content(length), total_length |-> total_length,
     dl |-> 0, counts |-> <<>>, reports |-> {}, created |-> FALSE,
     err |-> "none", value |-> None]

InitDownloadFile ==
    /\ caller = "direct"
    /\ pc = "downloadFile"
    /\ hda_dict = EmptyDict
    /\ raised = {}
    /\ sent = {}
    /\ broker = [accepted |-> FALSE, puts |-> 0, token_denied |-> FALSE,
                 orders |-> <<>>, rejected |-> {}, get_answer |-> "none",
                 put_failed |-> FALSE, job_completed |-> FALSE,
                 completed |-> {}]
    /\ dir = [exists |-> TRUE, files |-> EmptyDict, made |-> 0]
    /\ poll = NoPoll
    /\ ord = NoOrd
    /\ dl = NoDl
    /\ calls = NoCalls
    /\ df \in {DfCall(c, n, t) : c \in {CONST_HTTP_SUCCESS_CODE, ErrorCode},
                                 n \in BodyLengths, t \in TotalLengths}

\* lines 550-558: the request, open(filename, 'wb') and the first print
downloadFile_request ==
    /\ df.at = "call"
    /\ IF df.status_code # 200
       THEN /\ df' = [df EXCEPT !.at = "returned", !.value = None]
            /\ UNCHANGED dir
       ELSE /\ dir' = [dir EXCEPT !.files = Put(@, DirectFile, 0)]
            /\ IF df.total_length = NoLength
               THEN \* line 557 divides None
                    df' = [df EXCEPT !.at = "raised", !.err = "TypeError",
                                     !.created = TRUE]
               ELSE df' = [df EXCEPT !.at = "chunks", !.created = TRUE,
                                     !.dl = 0]
    /\ UNCHANGED <<caller, pc, hda_dict, raised, sent, broker, poll, ord, dl,
                   calls>>

\* mutant: the counter is set to the length of the chunk
dl_after_assigned(dl_before, chunk) == chunk

\* line 560: the counter after a chunk
dl_after(dl_before, chunk) == dl_before + chunk

\* lines 559-578: one iteration of the loop over the chunks
downloadFile_chunk ==
    /\ df.at = "chunks"
    /\ df.body # <<>>
    /\ LET chunk == Head(df.body)
           dl_now == dl_after(df.dl, chunk)
           next == [df EXCEPT !.body = Tail(@), !.dl = dl_now,
                              !.counts = Append(@, dl_now)]
       IN  /\ dir' = [dir EXCEPT
                        !.files = Put(@, DirectFile, @[DirectFile] + chunk)]
           /\ IF df.total_length # NoLength
              THEN IF df.total_length = 0
                   THEN \* line 563 divides by zero
                        df' = [next EXCEPT !.at = "raised",
                                           !.err = "ZeroDivisionError"]
                   ELSE df' = [next EXCEPT !.reports = @ \cup {"bar"}]
              ELSE IF dl_now % 1024 = 0
                   THEN df' = [next EXCEPT !.reports = @ \cup {"log"}]
                   ELSE df' = next
    /\ UNCHANGED <<caller, pc, hda_dict, raised, sent, broker, poll, ord, dl,
                   calls>>

\* lines 579-585: after the loop
downloadFile_return ==
    /\ df.at = "chunks"
    /\ df.body = <<>>
    /\ df' = [df EXCEPT !.at = "returned", !.value = "elapsed"]
    /\ UNCHANGED <<caller, pc, hda_dict, raised, sent, broker, dir, poll,
                   ord, dl, calls>>

NextDownloadFile ==
    \/ downloadFile_request
    \/ downloadFile_chunk
    \/ downloadFile_return

SpecDownloadFile == InitDownloadFile /\ [][NextDownloadFile]_vars

DfEnded == df.at \in {"returned", "raised"}

\* the bytes of the file of the direct call (0 when it does not exist)
DfFileBytes == IF Has(dir.files, DirectFile) THEN dir.files[DirectFile] ELSE 0

\* the chunk-by-chunk call ends as the operator downloadFile says
DownloadFileAgrees ==
    DfEnded =>
        LET r == downloadFile([status_code |-> df.status_code,
                               body |-> [length |-> df.length]],
                              df.total_length)
        IN  /\ r.created = df.created
            /\ r.created = Has(dir.files, DirectFile)
            /\ r.written = DfFileBytes
            /\ r.ends = (IF df.at = "raised" THEN df.err ELSE "return")
            /\ r.value = df.value

----------------------------------------------------------------------------
(* generate_api_key called directly *)

\* strings are sequences of code points: ':', 'a' and e-acute
Colon == 58
Chars == {Colon, 97, 233}

Strings == UNION {[1..n -> Chars] : n \in 0..MaxName}

\* str.encode(s): UTF-8, one byte below 128 and two bytes below 2048
RECURSIVE str_encode(_)
str_encode(s) ==
    IF s = <<>> THEN <<>>
    ELSE LET c == Head(s)
         IN  (IF c < 128 THEN <<c>>
              ELSE <<192 + (c \div 64), 128 + (c % 64)>>)
             \o str_encode(Tail(s))

\* the ASCII code of digit i of the standard Base64 alphabet (altchars=None)
B64Char(i) ==
    IF i < 26 THEN 65 + i
    ELSE IF i < 52 THEN 71 + i
    ELSE IF i < 62 THEN i - 4
    ELSE IF i = 62 THEN 43 ELSE 47

B64Pad == 61

\* base64.b64encode(b): three bytes give four digits, the rest is padded
RECURSIVE b64encode(_)
b64encode(b) ==
    IF Len(b) = 0 THEN <<>>
    ELSE IF Len(b) = 1
    THEN <<B64Char(b[1] \div 4), B64Char((b[1] % 4) * 16), B64Pad, B64Pad>>
    ELSE IF Len(b) = 2
    THEN <<B64Char(b[1] \div 4),
           B64Char((b[1] % 4) * 16 + (b[2] \div 16)),
           B64Char((b[2] % 16) * 4), B64Pad>>
    ELSE <<B64Char(b[1] \div 4),
           B64Char((b[1] % 4) * 16 + (b[2] \div 16)),
           B64Char((b[2] % 16) * 4 + (b[3] \div 64)),
           B64Char(b[3] % 64)>>
         \o b64encode(SubSeq(b, 4, Len(b)))

\* bytes.decode() of the ASCII bytes of the key: one character per byte
RECURSIVE bytes_decode(_)
bytes_decode(b) ==
    IF b = <<>> THEN <<>>
    ELSE IF Head(b) < 128
    THEN <<Head(b)>> \o bytes_decode(Tail(b))
    ELSE <<(Head(b) - 192) * 64 + (b[2] - 128)>>
         \o bytes_decode(SubSeq(b, 3, Len(b)))

\* mutant: the separator is left out
generate_api_key_no_colon(username, password) ==
    LET s == username \o password
    IN  bytes_decode(b64encode(str_encode(s)))

\* lines 99-100: generate_api_key(username, password)
generate_api_key(username, password) ==
    LET s == username \o <<Colon>> \o password
    IN  bytes_decode(b64encode(str_encode(s)))

B64Index(c) == CHOOSE i \in 0..63 : B64Char(i) = c

\* base64.b64decode(key): what the broker reads from the Basic credential
RECURSIVE b64decode(_)
b64decode(k) ==
    IF k = <<>> THEN <<>>
    ELSE LET i1 == B64Index(k[1])
             i2 == B64Index(k[2])
             b1 == i1 * 4 + (i2 \div 16)
             rest == b64decode(SubSeq(k, 5, Len(k)))
         IN  IF k[3] = B64Pad THEN <<b1>>
             ELSE LET i3 == B64Index(k[3])
                      b2 == (i2 % 16) * 16 + (i3 \div 4)
                  IN  IF k[4] = B64Pad THEN <<b1, b2>>
                      ELSE <<b1, b2, (i3 % 4) * 64 + B64Index(k[4])>>
                           \o rest

\* the credentials of a call, and the keys its calls returned so far
KeyCall(username, password) ==
    [at |-> "generate_api_key", username |-> username,
     password |-> password, keys |-> <<>>]

InitKey ==
    /\ caller = "direct"
    /\ pc = "generate_api_key"
    /\ hda_dict = EmptyDict
    /\ raised = {}
    /\ sent = {}
    /\ broker = [accepted |-> FALSE, puts |-> 0, token_denied |-> FALSE,
                 orders |-> <<>>, rejected |-> {}, get_answer |-> "none",
                 put_failed |-> FALSE, job_completed |-> FALSE,
                 completed |-> {}]
    /\ dir = [exists |-> TRUE, files |-> EmptyDict, made |-> 0]
    /\ poll = NoPoll
    /\ ord = NoOrd
    /\ dl = NoDl
    /\ calls = NoCalls
    /\ df \in {KeyCall(u, p) : u \in Strings, p \in Strings}

\* api_key = generate_api_key(user_name, password), called once more
\* with the same credentials
generate_api_key_call ==
    /\ df.at = "generate_api_key"
    /\ Len(df.keys) < MaxCalls
    /\ df' = [df EXCEPT
                !.keys = Append(@, generate_api_key(df.username,
                                                    df.password))]
    /\ UNCHANGED <<caller, pc, hda_dict, raised, sent, broker, dir, poll,
                   ord, dl, calls>>

NextKey == generate_api_key_call

SpecKey == InitKey /\ [][NextKey]_vars

----------------------------------------------------------------------------
(* init called directly, more than once with the same arguments *)

Paths == {"products", "data"}

\* a path of the file system: no such directory, an empty directory, or
\* a directory with files in it
DirStates == {"absent", "empty", "files"}

\* the arguments of the calls, the file system before the first call (fs0)
\* and now (fs), and the number of os.makedirs calls made
InitCall(dataset_id, api_key, download_dir_path, fs) ==
    [at |-> "init", dataset_id |-> dataset_id, api_key |-> api_key,
     download_dir_path |-> download_dir_path, fs0 |-> fs, fs |-> fs,
     made |-> 0, calls |-> 0]

InitInit ==
    /\ caller = "direct"
    /\ pc = "init"
    /\ hda_dict = EmptyDict
    /\ raised = {}
    /\ sent = {}
    /\ broker = [accepted |-> FALSE, puts |-> 0, token_denied |-> FALSE,
                 orders |-> <<>>, rejected |-> {}, get_answer |-> "none",
                 put_failed |-> FALSE, job_completed |-> FALSE,
                 completed |-> {}]
    /\ dir = [exists |-> TRUE, files |-> EmptyDict, made |-> 0]
    /\ poll = NoPoll
    /\ ord = NoOrd
    /\ dl = NoDl
    /\ calls = NoCalls
    /\ df \in {InitCall(d, k, p, fs) :
                 d \in {"dataset", "other"}, k \in {"key", "key2"},
                 p \in Paths, fs \in [Paths -> DirStates]}

\* hda_dict = init(dataset_id, api_key, download_dir_path)
init_call ==
    /\ df.at = "init"
    /\ df.calls < MaxCalls
    /\ hda_dict' = init_dict(df.dataset_id, df.api_key, df.download_dir_path)
    /\ LET p == df.download_dir_path
           makes == init_makes_dir(df.fs[p] # "absent")
       IN  df' = [df EXCEPT
                    !.calls = @ + 1,
                    !.made = @ + (IF makes THEN 1 ELSE 0),
                    !.fs[p] = IF makes THEN "empty" ELSE @]
    /\ UNCHANGED <<caller, pc, raised, sent, broker, dir, poll, ord, dl,
                   calls>>

NextInit == init_call

SpecInit == InitInit /\ [][NextInit]_vars

----------------------------------------------------------------------------
(* Properties *)

Stored(k) == Has(hda_dict, k)

Content == hda_dict["results"].content

\* the result an order id was issued for
IssuedFor(order_id) == broker.orders[order_id].uri

InPollingLoop == pc \in {"get_request_status", "get_order_status"}

\* C1: after get_results_list, get_order_ids and download_data have run,
\* order ids, result descriptors and downloaded files correspond 1:1:1 in
\* request order: as many order ids and downloaded files as results, the
\* j-th order id issued for the j-th result and downloaded under the j-th
\* result's filename and with its size.
C1_OneToOneToOne ==
    (pc = "done" /\ Stored("filenames")) =>
        /\ Len(hda_dict["order_ids"]) = Len(Content)
        /\ Len(dl.log) = Len(Content)
        /\ \A j \in DOMAIN Content :
              /\ IssuedFor(hda_dict["order_ids"][j]) = Content[j].url
              /\ dl.log[j].order_id = hda_dict["order_ids"][j]
              /\ dl.log[j].file_name[1] = Content[j].filename[1]
              /\ dl.log[j].total_length = Content[j].size
              /\ Has(dir.files, dl.log[j].file_name)

\* C2: for K >= 1 results, when every order request was answered 200 and
\* every order was polled to "completed", get_order_ids stores exactly K
\* order ids in result order, and order_sizes[j] is the size of result j.
C2_OrdersInResultOrder ==
    (Stored("order_status_response") /\ broker.rejected = {}) =>
        /\ Len(hda_dict["order_ids"]) = Len(Content)
        /\ Len(hda_dict["order_sizes"]) = Len(Content)
        /\ \A j \in DOMAIN Content :
              /\ IssuedFor(hda_dict["order_ids"][j]) = Content[j].url
              /\ hda_dict["order_sizes"][j] = Content[j].size

C2_Witness ==
    /\ Stored("order_status_response")
    /\ broker.rejected = {}
    /\ Len(Content) >= 2
    /\ Len(hda_dict["order_ids"]) = Len(Content)

\* C3: a non-200 answer to an order request does not abort get_order_ids:
\* no call of get_order_ids that got a non-200 answer ends with an exception.
C3_OrderFailureDoesNotAbort ==
    \A e \in raised : e.fn = "get_order_ids" => ~e.non200

\* C4: no file is ever downloaded with an order id paired with the filename
\* or the size of a result the order was not issued for; and when the order
\* request fails for the second of three results and succeeds for the
\* third, get_order_ids ends with an exception, stores no order ids and no
\* download request is ever sent.
C4_NoShiftedDownload ==
    /\ \A n \in DOMAIN dl.log :
          LET e == dl.log[n]
              j == IssuedFor(e.order_id)
          IN  /\ e.total_length = Content[j].size
              /\ \A k \in DOMAIN Content :
                    k # j => e.file_name[1] # Content[k].filename[1]
    /\ ( /\ Stored("results") /\ Has(hda_dict["results"], "content")
         /\ Len(Content) = 3
         /\ broker.rejected = {2}
         /\ \E o \in DOMAIN broker.orders : broker.orders[o].uri = 3 )
       => /\ pc \in {"aborted", "download_data", "done"}
          /\ \E e \in raised : e.fn = "get_order_ids" /\ e.err = "IndexError"
          /\ ~Stored("order_ids")
          /\ dl.log = <<>>
          /\ \A r \in sent : r.endpoint # "dataorder/download"

C4_Witness ==
    /\ Stored("results") /\ Has(hda_dict["results"], "content")
    /\ Len(Content) = 3
    /\ broker.rejected = {2}
    /\ \E o \in DOMAIN broker.orders : broker.orders[o].uri = 3
    /\ pc \in {"aborted", "done"}

\* C5: when the job-status endpoint answers "completed" for the first time
\* on the N-th request, get_request_status has sent exactly N requests, and
\* its next step is to return: it never polls again.
C5_ExactlyNPolls ==
    [][ (pc = "get_request_status" /\ poll.completed_at > 0) =>
            /\ poll.polls = poll.completed_at
            /\ poll.status = "completed"
            /\ pc' = "get_results_list"
            /\ sent' = sent ]_vars

C5_Witness ==
    /\ pc = "get_request_status"
    /\ poll.completed_at = 21
    /\ poll.polls = 21

\* C6: in both polling loops the first 20 requests are sent without a sleep
\* and every later request is preceded by one 5-second sleep: after N
\* requests the loop has slept 5 * max(0, N - 20) seconds.
C6_SleepPolicy ==
    InPollingLoop => poll.slept = 5 * Max(0, poll.polls - 20)

C6_Witness ==
    /\ pc = "get_order_status"
    /\ poll.polls = 22
    /\ poll.slept = 10

\* C7: a polling loop is left only after a 200 response with status
\* "completed"; after any other response (another status, or a non-200
\* one) the next step is another status request.
C7_OnlyCompletedEndsLoop ==
    [][ InPollingLoop =>
            IF poll.code = 200 /\ poll.status = "completed"
            THEN pc' # pc
            ELSE pc' = pc /\ poll'.polls = poll.polls + 1 ]_vars

C7_Witness ==
    /\ InPollingLoop
    /\ poll.status = "failed"
    /\ poll.code # 200
    /\ poll.polls = 22
    /\ poll.completed_at = 0

\* C8: when the job submission is answered non-200, the job id stays empty
\* and no request is ever sent for the empty job id.
C8_NoRequestForEmptyJob ==
    (Stored("job_id") /\ hda_dict["job_id"] = "") =>
        \A r \in sent : r.job # ""

\* C9: when the token request is answered non-200, neither 'access_token'
\* nor 'headers' is ever stored, no request but the token request is sent,
\* and every later step of the pipeline that runs ends with an exception.
C9_NoTokenNoHeaders ==
    broker.token_denied =>
        /\ ~Stored("access_token")
        /\ ~Stored("headers")
        /\ \A r \in sent : r.endpoint = "gettoken"
        /\ \A n \in 3..7 :
              (\E m \in n + 1..8 : pc = Steps[m]) =>
                  \E e \in raised : e.fn = Steps[n]
        /\ pc \in {"aborted"} \cup {Steps[n] : n \in 3..8}

C9_Witness ==
    /\ broker.token_denied
    /\ caller = "steps"
    /\ pc = "done"
    /\ Cardinality(raised) = 6

\* C10: no client function ends with an exception after it received a
\* non-200 response.
C10_NeverRaisesOnNon200 ==
    \A e \in raised : ~e.non200
\* C11: acceptTandC is idempotent: one call sends at most one acceptance
\* PUT, and successive calls against a broker that records the acceptance
\* (no PUT answered non-200) send at most one PUT in total.
C11_AtMostOnePut ==
    /\ calls.acceptTandC <= 1 => broker.puts <= 1
    /\ ~broker.put_failed => broker.puts <= 1

C11_Witness ==
    /\ calls.acceptTandC = 2
    /\ broker.puts = 1
    /\ ~broker.put_failed
    /\ broker.get_answer = "accepted"
    /\ Stored("isTandCAccepted")

\* C12: a call of acceptTandC sends the PUT exactly when its GET reported
\* accepted = false; when the GET reported accepted = true it sends no PUT
\* and stores isTandCAccepted = true.
C12_PutIffNotAccepted ==
    [][ (pc = "acceptTandC" /\ Stored("headers")) =>
            /\ broker'.puts = broker.puts +
                   (IF broker'.get_answer = "not accepted" THEN 1 ELSE 0)
            /\ broker'.get_answer = "accepted" =>
                   /\ broker'.puts = broker.puts
                   /\ "isTandCAccepted" \in DOMAIN hda_dict'
                   /\ hda_dict'["isTandCAccepted"] = TRUE ]_vars

C12_Witness ==
    /\ calls.acceptTandC = 1
    /\ broker.get_answer = "accepted"
    /\ broker.puts = 0
    /\ Stored("isTandCAccepted")
    /\ hda_dict["isTandCAccepted"] = TRUE

OrderRequests == {r \in sent : r.endpoint = "dataorder"}

\* C13 as stated: the order for result j+1 is posted only after the order
\* for result j has been polled to "completed", and no order is posted
\* before the job was seen "completed" and the result list was fetched.
C13_NextOrderAfterCompleted ==
    \A r \in OrderRequests :
        /\ broker.job_completed
        /\ Stored("results")
        /\ r.order > 1 =>
              \E o \in broker.completed : IssuedFor(o) = r.order - 1

\* C13 amended: steps run one at a time and in order: no order is posted
\* before the job was seen "completed" and the result list was fetched,
\* orders are posted in result order, each only after every order issued
\* before it was polled to "completed", and while a polling loop runs
\* no other request is sent.
C13_OneAtATime ==
    /\ \A r \in OrderRequests :
          /\ broker.job_completed
          /\ Stored("results")
          /\ \A u \in 1..r.order : \E q \in OrderRequests : q.order = u
          /\ \A o \in DOMAIN broker.orders :
                IssuedFor(o) < r.order => o \in broker.completed
    /\ \A o \in DOMAIN broker.orders :
          o \notin broker.completed =>
              \/ pc = "get_order_status" /\ poll.order_id = o
              \/ pc \in {"aborted", "download_data", "done"}
                    /\ ~Stored("order_ids")

C13_Witness ==
    /\ \E r \in OrderRequests : r.order = 3
    /\ broker.rejected = {2}
    /\ broker.completed = {1}
    /\ IssuedFor(1) = 1

\* the downloadFile calls made for an order id
DownloadsOf(order_id) == {n \in DOMAIN dl.log : dl.log[n].order_id = order_id}

AllDownloadsOk == \A n \in DOMAIN dl.log : dl.log[n].status_code = 200

\* C14: a download request is sent only for an order that was polled to
\* "completed", and when the pipeline run has ended exactly one download
\* request was sent for every recorded order id.
C14_EachOrderDownloadedOnce ==
    /\ \A n \in DOMAIN dl.log : dl.log[n].order_id \in broker.completed
    /\ (pc \in {"done", "aborted"} /\ Stored("order_ids")) =>
          \A j \in DOMAIN hda_dict["order_ids"] :
              Cardinality(DownloadsOf(hda_dict["order_ids"][j])) = 1

\* C15: after download_data has downloaded K orders that all answered 200,
\* K distinct files exist in the download directory, whatever
\* file_extension and user_filename were given.
C15_OneFilePerOrder ==
    (pc = "done" /\ Stored("filenames") /\ AllDownloadsOk) =>
        Cardinality(DOMAIN dir.files) = Len(hda_dict["order_ids"])

\* C16: when the query returns 2 results of sizes 1000 and 2000 bytes and
\* every endpoint answers correctly, then after the pipeline (called without
\* user_filename) exactly 2 files exist in the download directory, of 1000
\* and 2000 bytes, named by the results' filenames plus the configured
\* extension, which is ".zip" in the pipeline cell.
C16_Scenario ==
    LET ext == Tail(dl.log[1].file_name)
    IN  ( /\ pc = "done" /\ Stored("filenames") /\ raised = {}
          /\ Len(Content) = 2
          /\ Content[1].size = 1000 /\ Content[2].size = 2000
          /\ broker.rejected = {} /\ AllDownloadsOk
          /\ dl.log[1].file_name[1] = Content[1].filename[1] )
        => /\ Len(dl.log) = 2
           /\ ext \in {NoName, <<".zip">>}
           /\ caller = "cell" => ext = <<".zip">>
           /\ DOMAIN dir.files = {Content[j].filename \o ext : j \in 1..2}
           /\ Cardinality(DOMAIN dir.files) = 2
           /\ \A j \in 1..2 :
                 dir.files[Content[j].filename \o ext] = Content[j].size

C16_Witness ==
    /\ pc = "done" /\ Stored("filenames") /\ raised = {}
    /\ caller = "cell"
    /\ Len(Content) = 2
    /\ broker.rejected = {} /\ AllDownloadsOk
    /\ DOMAIN dir.files = {<<"a.nc", ".zip">>, <<"b.nc", ".zip">>}
    /\ dir.files[<<"a.nc", ".zip">>] = 1000
    /\ dir.files[<<"b.nc", ".zip">>] = 2000

\* C17: for a 200 response whose body has L bytes, downloadFile writes a
\* file of exactly L bytes, whatever total_length was passed.
C17_FileLengthIsStreamLength ==
    (DfEnded /\ df.status_code = 200) =>
        /\ Has(dir.files, DirectFile)
        /\ dir.files[DirectFile] = df.length

\* C19: when the total size is unknown (total_length = 0, the default),
\* downloadFile falls back to cumulative-byte logging and completes the
\* download of a non-empty stream without failing.
C19_UnknownSizeCompletes ==
    (DfEnded /\ df.status_code = 200 /\ df.length > 0
        /\ df.total_length = 0) =>
        /\ df.at = "returned"
        /\ df.value = "elapsed"
        /\ DfFileBytes = df.length
        /\ "bar" \notin df.reports

\* C18: when a download request is answered non-200, downloadFile creates
\* no file and returns None, and download_data goes on: it appends the
\* file's path to its list, stored in 'filenames', and takes the next order.
C18_FailedDownloadCounted ==
    \A n \in DOMAIN dl.log :
        LET e == dl.log[n]
            path == <<hda_dict["download_dir_path"]>> \o e.file_name
        IN  e.status_code # 200 =>
            /\ e.value = None
            /\ e.written = 0
            /\ (\A m \in DOMAIN dl.log :
                    dl.log[m].file_name = e.file_name =>
                        dl.log[m].status_code # 200)
                  => ~Has(dir.files, e.file_name)
            /\ \A x \in raised : x.fn = "downloadFile" => ~x.non200
            /\ pc = "download_loop" =>
                  /\ dl.i = Len(dl.log)
                  /\ Len(dl.fileNames) = Len(dl.log)
                  /\ dl.fileNames[n] = path
            /\ Stored("filenames") => hda_dict["filenames"][n] = path

C18_Witness ==
    /\ pc = "done"
    /\ Stored("filenames")
    /\ Len(dl.log) = 2
    /\ dl.log[1].status_code # 200
    /\ dl.log[2].status_code = 200
    /\ Len(hda_dict["filenames"]) = 2
    /\ ~Has(dir.files, dl.log[1].file_name)
    /\ Has(dir.files, dl.log[2].file_name)

\* C20: the file of the i-th order id is named user_filename when one is
\* supplied and otherwise by the filename of the i-th result, followed by
\* file_extension when one is supplied, and it is written under the
\* configured download directory.
C20_TargetFileName ==
    pc = "download_loop" =>
        \A n \in DOMAIN dl.log :
            LET base == IF dl.user_filename # NoName THEN dl.user_filename
                        ELSE Content[n].filename
                name == IF dl.file_extension # NoName
                        THEN base \o dl.file_extension ELSE base
            IN  /\ dl.log[n].order_id = hda_dict["order_ids"][n]
                /\ dl.log[n].file_name = name
                /\ dl.fileNames[n] = <<hda_dict["download_dir_path"]>> \o name
                /\ dl.log[n].status_code = 200 => Has(dir.files, name)

C20_Witness ==
    /\ pc = "download_loop"
    /\ Len(dl.log) = 2
    /\ dl.user_filename = <<"user.nc">>
    /\ dl.file_extension = <<".zip">>
    /\ dl.log[2].file_name = <<"user.nc", ".zip">>
    /\ dl.log[2].status_code = 200

TokenRequests == {r \in sent : r.endpoint = "gettoken"}

\* C21: the token request is the only request sent with the Basic
\* credential; every other request is sent after a successful
\* get_access_token and carries Bearer with the token stored in the
\* session; the token is requested once: no later step requests it again.
C21_BearerAfterToken ==
    /\ \A r \in sent :
          IF r.endpoint = "gettoken"
          THEN r.auth = Basic(hda_dict["api_key"])
          ELSE /\ Stored("access_token")
               /\ r.auth[1] # "Basic"
               /\ r.auth = <<"Bearer", hda_dict["access_token"]>>
    /\ calls.get_access_token <= 1
    /\ Cardinality(TokenRequests) = calls.get_access_token
    /\ pc \notin {"init", "get_access_token"} => calls.get_access_token = 1

C21_Witness ==
    /\ pc = "done"
    /\ calls.get_access_token = 1
    /\ Cardinality(TokenRequests) = 1
    /\ \A e \in {"termsaccepted", "datarequest", "datarequest/status",
                  "datarequest/jobs/result", "dataorder", "dataorder/status",
                  "dataorder/download"} :
          \E r \in sent : r.endpoint = e /\ r.auth = <<"Bearer", "token1">>

\* C22: for all usernames and passwords, generate_api_key is deterministic
\* (every call with the same credentials returns the same key) and its
\* result decodes back to exactly username + ':' + password.
C22_KeyDecodesBack ==
    \A n \in DOMAIN df.keys :
        /\ df.keys[n] = df.keys[1]
        /\ bytes_decode(b64decode(df.keys[n]))
               = df.username \o <<Colon>> \o df.password

C22_Witness ==
    /\ Len(df.keys) = 2
    /\ df.username = <<97, 233>>
    /\ df.password = <<97>>
    /\ df.keys[2] = <<89, 99, 79, 112, 79, 109, 69, 61>>

ResultRequests == {r \in sent : r.endpoint = "datarequest/jobs/result"}

\* C23: a call of get_results_list sends exactly one request, the result
\* request for page 0 with page size 5; no step ever requests another
\* page; so only results of the first page are ordered and downloaded.
C23_FirstPageOnly ==
    /\ [][ (pc = "get_results_list" /\ Stored("job_id")
              /\ Stored("headers")) =>
               /\ sent' \ sent \subseteq ResultRequests'
               /\ ResultRequests' =
                     {[method |-> "GET",
                       endpoint |-> "datarequest/jobs/result",
                       job |-> hda_dict["job_id"], order |-> 0,
                       params |-> <<"0", "5">>,
                       auth |-> hda_dict["headers"].Authorization]} ]_vars
    /\ [](\A r \in sent :
             IF r \in ResultRequests THEN r.params = <<"0", "5">>
             ELSE r.params = <<>>)
    /\ [](\A r \in OrderRequests :
             /\ Stored("results")
             /\ r.order \in DOMAIN Content
             /\ Len(Content) <= PageSize)
    /\ [](\A n \in DOMAIN dl.log :
             IssuedFor(dl.log[n].order_id) \in DOMAIN Content)

C23_Witness ==
    /\ pc = "done"
    /\ Stored("filenames")
    /\ Cardinality(ResultRequests) = 1
    /\ Len(Content) = 3
    /\ Len(dl.log) = 3
    /\ \A j \in 1..3 : IssuedFor(dl.log[j].order_id) = j

\* C24: a non-200 response from a status endpoint leaves the loop's status
\* unchanged and prints the error, and after it the loop polls again: a
\* non-200 response never ends the loop.
C24_ErrorIsStillRunning ==
    /\ [][ (InPollingLoop /\ pc' = pc /\ poll'.code # 200) =>
               /\ poll'.status = poll.status
               /\ poll'.printed = "Error: Unexpected response" ]_vars
    /\ [][ (InPollingLoop /\ poll.polls > 0 /\ poll.code # 200) =>
               /\ pc' = pc
               /\ poll'.polls = poll.polls + 1 ]_vars

C24_Witness ==
    /\ pc = "get_order_status"
    /\ poll.polls = 3
    /\ poll.code # 200
    /\ poll.status = "running"
    /\ poll.printed = "Error: Unexpected response"
    /\ poll.completed_at = 0

\* C25: over the chunks of one download the downloaded-byte counter dl
\* starts at 0, never decreases, and equals the number of bytes written to
\* the file after every chunk, the last one included.
C25_CounterIsFileLength ==
    (df.created /\ df.err # "TypeError") =>
        /\ df.counts = <<>> => df.dl = 0
        /\ \A n \in DOMAIN df.counts :
              df.counts[n] >= (IF n = 1 THEN 0 ELSE df.counts[n - 1])
        /\ df.counts # <<>> => df.counts[Len(df.counts)] = df.dl
        /\ df.dl = DfFileBytes
        /\ df.at = "returned" => df.dl = df.length

C25_Witness ==
    /\ df.at = "returned"
    /\ df.status_code = 200
    /\ df.counts = <<ChunkSize, 2 * ChunkSize, 2 * ChunkSize + 1>>
    /\ DfFileBytes = 2 * ChunkSize + 1

\* C26: init makes the download directory exactly when it does not exist
\* and leaves an existing directory as it is; after init has returned the
\* directory exists, and a further call with the same path makes nothing.
C26_DirectoryMadeOnce ==
    df.calls >= 1 =>
        LET p == df.download_dir_path
        IN  /\ df.fs[p] # "absent"
            /\ df.made = (IF df.fs0[p] = "absent" THEN 1 ELSE 0)
            /\ df.fs0[p] # "absent" => df.fs = df.fs0
            /\ \A q \in Paths \ {p} : df.fs[q] = df.fs0[q]
            /\ hda_dict["download_dir_path"] = p

C26_Witness ==
    /\ df.calls = 2
    /\ df.fs0[df.download_dir_path] = "absent"
    /\ df.fs[df.download_dir_path] = "empty"
    /\ df.made = 1

\* get_order_ids has returned normally
OrderIdsReturned == Stored("order_status_response")

\* C27: whenever get_order_ids returns normally, the recorded order ids
\* are aligned with a prefix of the results (order_ids[j] was issued for
\* result j); a failed order request followed by a successful one for a
\* later result does not let get_order_ids return normally.
C27_OrderIdsArePrefix ==
    OrderIdsReturned =>
        /\ Len(hda_dict["order_ids"]) <= Len(Content)
        /\ \A j \in DOMAIN hda_dict["order_ids"] :
              IssuedFor(hda_dict["order_ids"][j]) = Content[j].url
        /\ \A o \in DOMAIN broker.orders :
              \A u \in broker.rejected : u > IssuedFor(o)

C27_Witness ==
    /\ OrderIdsReturned
    /\ Len(Content) = 3
    /\ broker.rejected = {3}
    /\ Len(hda_dict["order_ids"]) = 2
    /\ hda_dict["order_status_response"].status_code # 200

\* results taken from the list so far by the running get_order_ids
Processed == ord.i + (IF pc = "get_order_status" THEN 1 ELSE 0)

\* C28: at every point of get_order_ids there are as many order sizes as
\* results processed so far and as many order ids as processed results
\* whose order request was answered 200; order_ids is never longer than
\* order_sizes, and they have equal length only when no request failed.
C28_SizesCountAllIdsCountOk ==
    /\ pc \in {"order_loop", "get_order_status"} =>
          /\ Len(ord.order_sizes) = Processed
          /\ Len(ord.order_ids) =
                Cardinality({j \in 1..Processed : j \notin broker.rejected})
          /\ Len(ord.order_ids) = Len(broker.orders)
          /\ Len(ord.order_ids) <= Len(ord.order_sizes)
          /\ Len(ord.order_ids) = Len(ord.order_sizes)
                => broker.rejected = {}
    /\ Stored("order_ids") =>
          /\ Len(hda_dict["order_sizes"]) = Len(Content)
          /\ Len(hda_dict["order_ids"]) =
                Len(Content) - Cardinality(broker.rejected)
          /\ Len(hda_dict["order_ids"]) = Len(hda_dict["order_sizes"])
                => broker.rejected = {}

C28_Witness ==
    /\ pc = "order_loop"
    /\ ord.i = 3
    /\ broker.rejected = {2, 3}
    /\ Len(ord.order_ids) = 1
    /\ Len(ord.order_sizes) = 3

\* get_order_ids has run on an empty result list
EmptyListDone ==
    /\ Stored("results") /\ Has(hda_dict["results"], "content")
    /\ Content = <<>>
    /\ pc \in {"aborted", "download_data", "download_loop", "done"}

\* C29 as stated: when the result list is empty, get_order_ids does not
\* return normally and stores none of 'order_ids', 'order_sizes' and
\* 'order_status_response'.
C29_EmptyListStoresNothing ==
    EmptyListDone =>
        /\ \E e \in raised : e.fn = "get_order_ids"
        /\ ~Stored("order_ids")
        /\ ~Stored("order_sizes")
        /\ ~Stored("order_status_response")

\* C29 amended: when the result list is empty, get_order_ids does not
\* return normally: it stores 'order_ids' and 'order_sizes' as empty lists
\* and then ends with UnboundLocalError, 'order_status_response' not stored.
C29_EmptyListStoresEmptyLists ==
    EmptyListDone =>
        /\ \E e \in raised :
              e.fn = "get_order_ids" /\ e.err = "UnboundLocalError"
        /\ Stored("order_ids") /\ hda_dict["order_ids"] = <<>>
        /\ Stored("order_sizes") /\ hda_dict["order_sizes"] = <<>>
        /\ ~Stored("order_status_response")

C29_Witness ==
    /\ EmptyListDone
    /\ pc = "aborted"
    /\ Stored("order_ids")
    /\ raised = {[fn |-> "get_order_ids", err |-> "UnboundLocalError",
                  non200 |-> FALSE]}

\* the status requests sent for the empty job id
EmptyJobPolls ==
    {r \in sent : r.endpoint = "datarequest/status" /\ r.job = ""}

\* C30: get_job_id polls the job status unconditionally: after a failed
\* submission the polling loop runs with the empty job id, and get_job_id
\* returns only after the status endpoint answered "completed" for it.
C30_EmptyJobIsPolled ==
    /\ [][ (pc = "get_job_id" /\ "job_id" \in DOMAIN hda_dict') =>
               /\ pc' = "get_request_status"
               /\ poll'.polls = 0
               /\ poll'.status = "not started" ]_vars
    /\ [][ (pc = "get_request_status" /\ pc' # pc) =>
               /\ poll.code = 200
               /\ poll.status = "completed"
               /\ poll.completed_at = poll.polls ]_vars
    /\ []( (pc = "get_request_status" /\ hda_dict["job_id"] = ""
               /\ poll.polls > 0) => EmptyJobPolls # {} )
    /\ []( (Stored("job_id") /\ hda_dict["job_id"] = ""
               /\ pc # "get_request_status") =>
               /\ broker.job_completed
               /\ EmptyJobPolls # {} )

C30_Witness ==
    /\ pc = "get_results_list"
    /\ Stored("job_id")
    /\ hda_dict["job_id"] = ""
    /\ broker.job_completed
    /\ EmptyJobPolls # {}

\* C31: download_data stores in 'filenames' exactly one path per recorded
\* order id, in the order of the order ids, each the download directory
\* joined with the target file name of that order's download, whether or
\* not the download was answered 200.
C31_OnePathPerOrderId ==
    Stored("filenames") =>
        /\ Len(hda_dict["filenames"]) = Len(hda_dict["order_ids"])
        /\ Len(dl.log) = Len(hda_dict["order_ids"])
        /\ \A n \in DOMAIN hda_dict["order_ids"] :
              /\ dl.log[n].order_id = hda_dict["order_ids"][n]
              /\ dl.log[n].file_name[1] \in {Content[n].filename[1], "user.nc"}
              /\ hda_dict["filenames"][n] =
                    <<hda_dict["download_dir_path"]>> \o dl.log[n].file_name

C31_Witness ==
    /\ Stored("filenames")
    /\ Len(hda_dict["order_ids"]) = 3
    /\ dl.log[1].status_code = 200
    /\ dl.log[2].status_code # 200
    /\ dl.log[3].status_code = 200
    /\ hda_dict["filenames"] = <<<<"products", "a.nc", ".zip">>,
                                 <<"products", "b.nc", ".zip">>,
                                 <<"products", "c.nc", ".zip">>>>

\* C32: the poll counter is local to each polling loop: every call of
\* get_request_status and of get_order_status starts with count = 0, so
\* its first 20 requests are sent without a sleep whatever the job's loop
\* and the loops of earlier orders have spent.
C32_CounterIsLocal ==
    /\ [][ (pc' \in {"get_request_status", "get_order_status"}
               /\ pc' # pc) =>
               /\ poll'.count = 0
               /\ poll'.polls = 0
               /\ poll'.slept = 0 ]_vars
    /\ [](InPollingLoop =>
             /\ poll.count = poll.polls
             /\ poll.polls <= ImmediatePolls => poll.slept = 0)

C32_Witness ==
    /\ pc = "get_order_status"
    /\ poll.order_id = 2
    /\ broker.completed = {1}
    /\ broker.job_completed
    /\ poll.polls = 20
    /\ poll.count = 20
    /\ poll.slept = 0

\* the session keys a step of the pipeline writes
OwnKeys(step) ==
    IF step = "get_results_list" THEN {"results"}
    ELSE IF step \in {"get_order_ids", "order_loop", "get_order_status"}
    THEN {"order_ids", "order_sizes", "order_status_response"}
    ELSE {"filenames"}

\* C33: get_results_list, get_order_ids and download_data write only their
\* own session keys: they leave the token, the headers and the job id
\* unchanged, and get_order_ids and download_data leave the stored result
\* page unchanged.
C33_OnlyOwnKeys ==
    [][ (pc \in {"get_results_list", "get_order_ids", "order_loop",
                 "get_order_status", "download_data", "download_loop"}) =>
            (\A k \in ((DOMAIN hda_dict) \cup (DOMAIN hda_dict')) :
                (k \notin OwnKeys(pc)) =>
                    (/\ k \in DOMAIN hda_dict
                     /\ k \in DOMAIN hda_dict'
                     /\ hda_dict'[k] = hda_dict[k])) ]_vars

C33_Witness ==
    /\ pc = "done"
    /\ Stored("filenames")
    /\ Stored("order_status_response")
    /\ hda_dict["access_token"] = "token1"
    /\ hda_dict["headers"].Authorization = <<"Bearer", "token1">>
    /\ hda_dict["job_id"] = "job1"
    /\ Len(Content) = 2
    /\ Len(hda_dict["filenames"]) = 2

\* C34: get_order_status returns only a response with HTTP status 200
\* whose status field is "completed"; hence the 'order_status_response'
\* stored by get_order_ids is non-200 exactly when the order request for
\* the last result failed.
C34_StoredResponseTellsLastOrder ==
    /\ [][ (pc = "get_order_status" /\ pc' # pc) =>
               (/\ poll.code = 200
                /\ poll.status = "completed"
                /\ ord'.response.status_code = 200) ]_vars
    /\ [](Stored("order_status_response") =>
             ((hda_dict["order_status_response"].status_code # 200)
                 <=> (Len(Content) \in broker.rejected)))

C34_Witness ==
    /\ Stored("order_status_response")
    /\ Len(Content) = 2
    /\ broker.rejected = {2}
    /\ broker.completed = {1}
    /\ hda_dict["order_ids"] = <<1>>
    /\ hda_dict["order_status_response"].status_code = 500
====
